---- MODULE Spec2Model ----
(***************************************************************************)
(* Mesh relay engine of ConnectX: MeshService (meshService.js) with the    *)
(* parts of the two transport adapters it drives, BluetoothService         *)
(* (api.js) and WiFiDirectService (meshService.js, second half).           *)
(*                                                                         *)
(* JavaScript runs every handler to completion: one action is one handler  *)
(* run to its end, or to its first await on native hardware.  A missing    *)
(* (undefined / null) string is "", a missing number is 0 and a missing id *)
(* is <<>>: the code tests these fields for truthiness only, and "", 0 and *)
(* undefined are all falsy.  The WiFi Direct native module is present; its *)
(* absence shows to the engine as isAvailable() = false and no peer.       *)
(***************************************************************************)
EXTENDS Integers, Sequences, FiniteSets, TLC

\* ---------------------------------------------------------------- bounds
MaxTicks == 1
MaxSend == 1
MaxPending == 1
MaxVisits == 6

\* ------------------------------------------------------ program constants
messageTimeout == 60000

\* The clock advances in steps of half the message time-to-live and starts
\* at a positive instant (Date.now() is never 0).
ClockStep == messageTimeout \div 2
StartTime == messageTimeout
Clock == {StartTime + k * ClockStep : k \in 0..MaxTicks}

\* ------------------------------------------------------------ input sets
NodeIds == {"n1", "n2"}
Transports == {"bluetooth", "wifiDirect"}
GroupIds == {"g1", "g2"}
\* initialize(userId, username, groupId): either group, or a group id that is undefined
InitArgs == {<<"u1", "Alice", g>> : g \in GroupIds}
MeshInitArgs == {<<"u1", "Alice", g>> : g \in {"g1", ""}}
Locations == {"L1"}
MsgTypes == {"message", "location", "user", "status", ""}
NoId == <<>>

VARIABLES
  userId, username, groupId, location,   \* engine identity and position
  nodes,                                 \* this.nodes: insertion-ordered Map
  messages,                              \* this.messages: id -> cache entry
  timer,                                 \* this.locationUpdateTimer is set
  subscribed,                            \* adapter listeners are registered
  now,                                   \* Date.now()
  nonce,                                 \* random suffixes drawn so far
  btConnected, btScanning,               \* BluetoothService state
  wifiConnected, wifiDiscovering,        \* WiFiDirectService state
  pendingStops,                          \* stopNetworking calls suspended at their await
  last,                                  \* the handler that ran last, with its inputs
  events,                                \* notifyListeners calls of that handler
  sends,                                 \* adapter sendMessage calls of that handler
  calls,                                 \* other adapter calls of that handler
  result,                                \* what that handler returned or threw
  delivered,                             \* per message id: receive events this session
  listeners,                             \* this.listeners: event -> insertion-ordered Set
  handles,                               \* deregistration handles addListener has returned;
                                         \* stale: already called, or older than a cleanup
  invoked,                               \* subscriber callbacks that handler invoked
  stopRequested,                         \* stopNetworking or cleanup was called since the
                                         \* location timer was last started
  netStopped                             \* stopNetworking has returned since the last
                                         \* startNetworking

vars == <<userId, username, groupId, location, nodes, messages, timer, subscribed,
          now, nonce, btConnected, btScanning, wifiConnected,
          wifiDiscovering, pendingStops, last, events, sends, calls, result,
          delivered, listeners, handles, invoked, stopRequested, netStopped>>

engineVars == <<userId, username, groupId, location, nodes, messages, timer, subscribed,
                listeners>>
adapterVars == <<btConnected, btScanning, wifiConnected, wifiDiscovering>>

\* ---------------------------------------------------------- JS helpers
\* Mutant: the identity check written with && instead of ||.
UninitializedBoth == userId = "" /\ groupId = ""

\* !this.userId || !this.groupId
Uninitialized == userId = "" \/ groupId = ""

\* Map.has / Map.set / Map.delete on this.nodes, keyed by nodeId alone
NodeIndex(ns, id) == {i \in 1..Len(ns) : ns[i].id = id}
NodesHas(ns, id) == NodeIndex(ns, id) # {}
\* Mutant: every connection adds an entry, also for an id that has one.
NodesSetAppend(ns, id, type) == Append(ns, [id |-> id, type |-> type])

NodesSet(ns, id, type) ==
  IF NodesHas(ns, id)
    THEN [i \in 1..Len(ns) |-> IF ns[i].id = id THEN [id |-> id, type |-> type] ELSE ns[i]]
    ELSE Append(ns, [id |-> id, type |-> type])
NodesDelete(ns, id) == SelectSeq(ns, LAMBDA n : n.id # id)
NodesOfType(ns, type) == SelectSeq(ns, LAMBDA n : n.type = type)

\* ------------------------------------------------------------- messages
Message(id, type, uid, uname, gid, payload, ts, ttl) ==
  [id |-> id, type |-> type, userId |-> uid, username |-> uname, groupId |-> gid,
   payload |-> payload, timestamp |-> ts, ttl |-> ttl]

\* `${userId}-${Date.now()}-${random suffix}`
MessageId(uid, t, r) == <<uid, t, r>>

\* Mutant: the entry expires with the message's own ttl.
CacheEntryOwnTtl(msg, t) == [msg |-> msg, expires |-> t + msg.ttl]

\* { ...message, expires: Date.now() + this.messageTimeout }
CacheEntry(msg, t) == [msg |-> msg, expires |-> t + messageTimeout]
\* Mutant: the Map.set of the cache is missing.
CachePutNone(cache, msg, t) == cache

CachePut(cache, msg, t) ==
  [i \in DOMAIN cache \cup {msg.id} |-> IF i = msg.id THEN CacheEntry(msg, t) ELSE cache[i]]
EmptyCache == [i \in {} |-> 0]

Event(name, data) == [name |-> name, data |-> data]

\* ------------------------------------------------------------ subscribers
\* The callbacks an application registers; those of Throwing throw when called.
Callbacks == {"cbA", "cbThrows"}
Throwing == {"cbThrows"}
\* Callbacks that change the Set of their event while it is being dispatched:
\* one subscribes cbLate, one unsubscribes cbA, one unsubscribes itself and
\* subscribes itself again.
ReentrantCallbacks == {"cbSubscribes", "cbUnsubscribes", "cbResubscribes"}
DispatchCallbacks == ReentrantCallbacks \cup {"cbA", "cbLate"}
\* removeListener(event, ...) calls of a callback
Removes(cb) ==
  CASE cb = "cbUnsubscribes" -> {"cbA"}
    [] cb = "cbResubscribes" -> {cb}
    [] OTHER -> {}
\* addListener(event, ...) calls of a callback, after its removeListener calls
Adds(cb) ==
  CASE cb = "cbSubscribes" -> <<"cbLate">>
    [] cb = "cbResubscribes" -> <<cb>>
    [] OTHER -> <<>>
\* The events the application subscribes to in the runs.
ListenEvents == {"initialized", "locationUpdated"}

NoListeners == [e \in {} |-> <<>>]

\* this.listeners.get(event).add(callback): a Set keeps one entry per callback,
\* at the place of its first insertion.
ListenersAdd(ls, e, cb) ==
  LET old == IF e \in DOMAIN ls THEN ls[e] ELSE <<>>
      new == IF \E i \in 1..Len(old) : old[i] = cb THEN old ELSE Append(old, cb)
  IN  [x \in DOMAIN ls \cup {e} |-> IF x = e THEN new ELSE ls[x]]

\* Mutant: the handle drops every callback of its event.
HandleDeleteAll(ls, e, cb) ==
  IF e \in DOMAIN ls THEN [ls EXCEPT ![e] = <<>>] ELSE ls

\* The closure addListener returns: callbacks.delete(callback) if the event has a Set.
HandleDelete(ls, e, cb) ==
  IF e \in DOMAIN ls THEN [ls EXCEPT ![e] = SelectSeq(@, LAMBDA c : c # cb)] ELSE ls

\* Mutant: no try/catch, the first callback that throws ends the dispatch.
NotifyListenersAbort(ev, ls) ==
  IF ev.name \notin DOMAIN ls THEN <<>>
  ELSE LET cbs == ls[ev.name]
           thrown == {i \in 1..Len(cbs) : cbs[i] \in Throwing}
           n == IF thrown = {} THEN Len(cbs) ELSE CHOOSE i \in thrown : \A j \in thrown : i <= j
       IN  [i \in 1..n |-> [event |-> ev.name, callback |-> cbs[i], threw |-> cbs[i] \in Throwing]]

\* Set.prototype.forEach over the live Set of an event: the callback at place
\* i runs inside its try/catch and may change the Set; an entry deleted before
\* its turn is not visited, an entry added before the end is, and so is one
\* deleted and added again.  A loop that has not ended after MaxVisits calls
\* never ends.
RECURSIVE ForEach(_, _, _, _, _)
ForEach(e, set, i, inv, fuel) ==
  IF i > Len(set) THEN [set |-> set, invoked |-> inv, returns |-> TRUE]
  ELSE IF fuel = 0 THEN [set |-> set, invoked |-> inv, returns |-> FALSE]
  ELSE LET cb == set[i]
           kept == SelectSeq(set, LAMBDA c : c \notin Removes(cb))
           added == SelectSeq(Adds(cb), LAMBDA c : \A j \in 1..Len(kept) : kept[j] # c)
           next == Cardinality({j \in 1..i : set[j] \notin Removes(cb)}) + 1
       IN  ForEach(e, kept \o added, next,
                   Append(inv, [event |-> e, callback |-> cb, threw |-> cb \in Throwing]),
                   fuel - 1)

\* MeshService.notifyListeners: the callbacks it invokes, in order.
NotifyListeners(ev, ls) ==
  IF ev.name \notin DOMAIN ls THEN <<>>
  ELSE ForEach(ev.name, ls[ev.name], 1, <<>>, MaxVisits).invoked

\* this.listeners after notifyListeners(ev), and whether the call returns.
AfterNotify(ev, ls) ==
  IF ev.name \notin DOMAIN ls THEN ls
  ELSE [ls EXCEPT ![ev.name] = ForEach(ev.name, @, 1, <<>>, MaxVisits).set]
NotifyReturns(ev, ls) ==
  ev.name \notin DOMAIN ls \/ ForEach(ev.name, ls[ev.name], 1, <<>>, MaxVisits).returns

\* The notifyListeners calls of one handler, in order.
RECURSIVE NotifyAll(_, _)
NotifyAll(evs, ls) ==
  IF evs = <<>> THEN <<>> ELSE NotifyListeners(Head(evs), ls) \o NotifyAll(Tail(evs), ls)

\* ----------------------------------------------------------------- Init
Init ==
  /\ userId = "" /\ username = "" /\ groupId = "" /\ location = ""
  /\ nodes = <<>>
  /\ messages = EmptyCache
  /\ timer = FALSE
  /\ subscribed = TRUE
  /\ now = StartTime
  /\ nonce = 0
  /\ btConnected = {} /\ btScanning = FALSE
  /\ wifiConnected = {} /\ wifiDiscovering = FALSE
  /\ pendingStops = 0
  /\ last = [op |-> "constructor"]
  /\ events = <<>> /\ sends = <<>> /\ calls = <<>>
  /\ result = "none"
  /\ delivered = EmptyCache
  /\ listeners = NoListeners
  /\ handles = {}
  /\ invoked = <<>>
  /\ stopRequested = FALSE
  /\ netStopped = FALSE

\* Mutant: the cache survives.
MessagesKept(cache) == cache

\* this.messages.clear()
MessagesClear(cache) == EmptyCache

\* MeshService.initialize
Initialize(uid, uname, gid) ==
  /\ userId' = uid /\ username' = uname /\ groupId' = gid
  /\ nodes' = <<>>
  /\ messages' = MessagesClear(messages)
  /\ timer' = TRUE
  /\ events' = <<Event("initialized", [userId |-> uid, username |-> uname, groupId |-> gid])>>
  /\ sends' = <<>> /\ calls' = <<>>
  /\ result' = "true"
  /\ last' = [op |-> "initialize", userId |-> uid, username |-> uname, groupId |-> gid,
              before |-> [groupId |-> groupId, nodes |-> Len(nodes),
                          messages |-> Cardinality(DOMAIN messages)]]
  /\ delivered' = EmptyCache
  /\ stopRequested' = FALSE
  /\ invoked' = NotifyAll(events', listeners)
  /\ UNCHANGED <<location, subscribed, now, nonce, pendingStops>>
  /\ UNCHANGED <<listeners, handles, netStopped>>
  /\ UNCHANGED adapterVars

\* ------------------------------------------------------------ adapters
\* Whether the adapter of `type` holds a connection to `id`
\* (BluetoothService.connectedDevices / WiFiDirectService.connectedPeers).
AdapterHas(type, id, btc, wfc) ==
  IF type = "bluetooth" THEN id \in btc ELSE id \in wfc

\* One call of <adapter>.sendMessage(id, msg).  It fails when the adapter
\* holds no connection to id, or when the native write fails (id \in failing).
\* The promise of a failed call rejects; awaited tells whether the caller
\* keeps the promise (broadcastMessage hands it to Promise.allSettled).
SendAttempt(type, id, msg, btc, wfc, failing) ==
  [to |-> id, via |-> type, msg |-> msg,
   ok |-> AdapterHas(type, id, btc, wfc) /\ id \notin failing,
   awaited |-> TRUE]
\* A call whose promise the caller drops: no await, no catch.
Dropped(send) == [send EXCEPT !.awaited = FALSE]

\* Mutant: the sends are awaited one by one and the first failure ends the broadcast.
BroadcastSendsAbort(ns, msg, btc, wfc, failing) ==
  LET bt == NodesOfType(ns, "bluetooth")
      wf == NodesOfType(ns, "wifiDirect")
      all == [i \in 1..Len(bt) |-> SendAttempt("bluetooth", bt[i].id, msg, btc, wfc, failing)]
             \o [i \in 1..Len(wf) |-> SendAttempt("wifiDirect", wf[i].id, msg, btc, wfc, failing)]
      failed == {i \in 1..Len(all) : ~all[i].ok}
  IN  IF failed = {} THEN all
      ELSE SubSeq(all, 1, CHOOSE i \in failed : \A j \in failed : i <= j)

\* The two forEach loops of broadcastMessage: Bluetooth nodes, then WiFi Direct nodes.
BroadcastSends(ns, msg, btc, wfc, failing) ==
  LET bt == NodesOfType(ns, "bluetooth")
      wf == NodesOfType(ns, "wifiDirect")
  IN  [i \in 1..Len(bt) |-> SendAttempt("bluetooth", bt[i].id, msg, btc, wfc, failing)]
      \o [i \in 1..Len(wf) |-> SendAttempt("wifiDirect", wf[i].id, msg, btc, wfc, failing)]

\* The cache insertion of broadcastMessage.
BroadcastCache(cache, msg, t) ==
  IF msg.id # NoId /\ msg.id \notin DOMAIN cache THEN CachePut(cache, msg, t) ELSE cache

\* The native writes that may fail: those to registered nodes, in any combination.
Failings == SUBSET {nodes[i].id : i \in 1..Len(nodes)}

\* A handler that makes no adapter call and returns nothing.
Quiet == calls' = <<>> /\ result' = "none"

\* --------------------------------------------------------- engine API
\* MeshService.sendMessage
SendMessageId == MessageId(userId, now, nonce + 1)
\* Mutant: the chat message is built without its ttl.
SendMessageDataNoTtl(content) ==
  Message(SendMessageId, "message", userId, username, groupId, content, now, 0)

SendMessageData(content) ==
  Message(SendMessageId, "message", userId, username, groupId, content, now, messageTimeout)

SendMessage(content) ==
  /\ nonce < MaxSend
  /\ last' = [op |-> "sendMessage", content |-> content,
              fresh |-> (SendMessageId \notin DOMAIN messages)]
  /\ IF Uninitialized
       THEN /\ result' = "Error: Mesh network not initialized"
            /\ events' = <<>> /\ sends' = <<>>
            /\ UNCHANGED <<messages, nonce>>
       ELSE LET msg == SendMessageData(content)
                cached == CachePut(messages, msg, now)
            IN  /\ messages' = BroadcastCache(cached, msg, now)
                /\ sends' \in {BroadcastSends(nodes, msg, btConnected, wifiConnected, f) : f \in Failings}
                /\ events' = <<Event("messageSent", msg)>>
                /\ result' = msg.id
                /\ nonce' = nonce + 1
  /\ calls' = <<>>
  /\ UNCHANGED <<userId, username, groupId, location, nodes, timer, subscribed>>
  /\ UNCHANGED adapterVars
  /\ UNCHANGED <<now, pendingStops, delivered>>
  /\ invoked' = NotifyAll(events', listeners)
  /\ UNCHANGED <<listeners, handles, stopRequested, netStopped>>

\* MeshService.broadcastMessage, called on its own
BroadcastMessage(msg) ==
  /\ last' = [op |-> "broadcastMessage", msg |-> msg]
  /\ IF Uninitialized
       THEN /\ sends' = <<>> /\ UNCHANGED messages
       ELSE /\ messages' = BroadcastCache(messages, msg, now)
            /\ sends' \in {BroadcastSends(nodes, msg, btConnected, wifiConnected, f) : f \in Failings}
  /\ events' = <<>>
  /\ Quiet
  /\ UNCHANGED <<userId, username, groupId, location, nodes, timer, subscribed>>
  /\ UNCHANGED adapterVars
  /\ UNCHANGED <<now, nonce, pendingStops, delivered>>
  /\ invoked' = NotifyAll(events', listeners)
  /\ UNCHANGED <<listeners, handles, stopRequested, netStopped>>

\* Mutant: the location goes out as a chat message.
LocationMessageAsChat(loc) == Message(NoId, "message", userId, username, groupId, loc, now, 0)

\* Mutant: the location message is given the engine's ttl.
LocationMessageWithTtl(loc) ==
  Message(NoId, "location", userId, username, groupId, loc, now, messageTimeout)

\* The location message updateLocation and the greeting build: no id, no ttl.
LocationMessage(loc) == Message(NoId, "location", userId, username, groupId, loc, now, 0)
\* The presence message of the greeting: no id, no ttl.
UserInfoMessage == Message(NoId, "user", userId, username, groupId, "", now, 0)

\* MeshService.updateLocation (op is "updateLocation", or "timer" for the periodic task)
UpdateLocation(op, loc) ==
  /\ last' = [op |-> op, location |-> loc]
  /\ location' = loc
  /\ IF Uninitialized
       THEN sends' = <<>>
       ELSE sends' \in {BroadcastSends(nodes, LocationMessage(loc), btConnected, wifiConnected, f) :
                         f \in Failings}
  /\ events' = <<Event("locationUpdated", [userId |-> userId, location |-> loc])>>
  /\ calls' = <<>>
  /\ result' = IF NotifyReturns(events'[1], listeners) THEN "none" ELSE "never returns"
  /\ UNCHANGED <<userId, username, groupId, nodes, messages, timer, subscribed>>
  /\ UNCHANGED adapterVars
  /\ UNCHANGED <<now, nonce, pendingStops, delivered>>
  /\ invoked' = NotifyAll(events', listeners)
  /\ listeners' = AfterNotify(events'[1], listeners)
  /\ UNCHANGED <<handles, stopRequested, netStopped>>

\* The setInterval callback of startLocationUpdates
TimerTick ==
  /\ timer
  /\ location # ""
  /\ UpdateLocation("timer", location)

\* ---------------------------------------------------------- subscribers
\* The closure addListener(e, cb) returns.
Handle(e, cb, stale) == [event |-> e, callback |-> cb, stale |-> stale]
\* this.listeners.get(e) exists and holds cb
Registered(ls, e, cb) == e \in DOMAIN ls /\ \E i \in 1..Len(ls[e]) : ls[e][i] = cb

\* MeshService.addListener
AddListener(e, cb) ==
  /\ listeners' = ListenersAdd(listeners, e, cb)
  /\ handles' = handles \cup {Handle(e, cb, FALSE)}
  /\ last' = [op |-> "addListener", event |-> e, callback |-> cb]
  /\ events' = <<>> /\ sends' = <<>> /\ calls' = <<>> /\ invoked' = <<>>
  /\ result' = "handle"
  /\ UNCHANGED <<userId, username, groupId, location, nodes, messages, timer, subscribed>>
  /\ UNCHANGED adapterVars
  /\ UNCHANGED <<now, nonce, pendingStops, delivered, stopRequested, netStopped>>

\* A call of a function addListener(e, cb) returned: for the first time and
\* before any cleanup, or stale.
Deregister(e, cb, stale) ==
  /\ Handle(e, cb, stale) \in handles
  /\ listeners' = HandleDelete(listeners, e, cb)
  /\ handles' = handles \cup {Handle(e, cb, TRUE)}
  /\ last' = [op |-> "deregister", event |-> e, callback |-> cb, stale |-> stale,
              removed |-> Registered(listeners, e, cb)]
  /\ events' = <<>> /\ sends' = <<>> /\ calls' = <<>> /\ invoked' = <<>>
  /\ result' = "none"
  /\ UNCHANGED <<userId, username, groupId, location, nodes, messages, timer, subscribed>>
  /\ UNCHANGED adapterVars
  /\ UNCHANGED <<now, nonce, pendingStops, delivered, stopRequested, netStopped>>

\* ------------------------------------------------ adapter event handlers
\* Mutant: the location message is sent whether or not a location is known.
GreetingAlwaysLocation(type, id, btc, wfc, failing) ==
  IF Uninitialized THEN <<>>
  ELSE <<Dropped(SendAttempt(type, id, UserInfoMessage, btc, wfc, failing)),
         Dropped(SendAttempt(type, id, LocationMessage(location), btc, wfc, failing))>>

\* The greeting of handleNodeConnected.
Greeting(type, id, btc, wfc, failing) ==
  IF Uninitialized THEN <<>>
  ELSE <<Dropped(SendAttempt(type, id, UserInfoMessage, btc, wfc, failing))>>
       \o (IF location # ""
             THEN <<Dropped(SendAttempt(type, id, LocationMessage(location), btc, wfc, failing))>>
             ELSE <<>>)

\* MeshService.handleNodeConnected
HandleNodeConnected(type, id, btc, wfc) ==
  /\ last' = [op |-> "handleNodeConnected", type |-> type, nodeId |-> id]
  /\ nodes' = NodesSet(nodes, id, type)
  /\ events' = <<Event("nodeConnected", [type |-> type, nodeId |-> id])>>
  /\ sends' \in {Greeting(type, id, btc, wfc, f) : f \in SUBSET {id}}
  /\ Quiet
  /\ UNCHANGED <<userId, username, groupId, location, messages, timer, subscribed>>
  /\ UNCHANGED <<now, nonce, pendingStops, delivered>>
  /\ invoked' = NotifyAll(events', listeners)
  /\ UNCHANGED <<listeners, handles, stopRequested, netStopped>>

\* MeshService.handleNodeDisconnected
HandleNodeDisconnected(type, id) ==
  /\ last' = [op |-> "handleNodeDisconnected", type |-> type, nodeId |-> id]
  /\ nodes' = NodesDelete(nodes, id)
  /\ events' = IF NodesHas(nodes, id)
                 THEN <<Event("nodeDisconnected", [type |-> type, nodeId |-> id])>>
                 ELSE <<>>
  /\ sends' = <<>>
  /\ Quiet
  /\ UNCHANGED <<userId, username, groupId, location, messages, timer, subscribed>>
  /\ UNCHANGED <<now, nonce, pendingStops, delivered>>
  /\ invoked' = NotifyAll(events', listeners)
  /\ UNCHANGED <<listeners, handles, stopRequested, netStopped>>

\* Mutant: the duplicate check is missing.
AcceptedNoDedup(msg) ==
  /\ ~Uninitialized
  /\ ~(msg.groupId # "" /\ msg.groupId # groupId)

\* Mutant: the group check is missing.
AcceptedNoGroup(msg) ==
  /\ ~Uninitialized
  /\ ~(msg.id # NoId /\ msg.id \in DOMAIN messages)

\* The three early returns of handleMessageReceived.
Accepted(msg) ==
  /\ ~Uninitialized
  /\ ~(msg.groupId # "" /\ msg.groupId # groupId)
  /\ ~(msg.id # NoId /\ msg.id \in DOMAIN messages)

\* Mutant: a default branch hands every other message to the chat listeners.
DispatchDefault(id, msg) ==
  CASE msg.type = "location" ->
         <<Event("locationReceived", [nodeId |-> id, userId |-> msg.userId, location |-> msg.payload])>>
    [] msg.type = "user" ->
         <<Event("userInfo", [nodeId |-> id, userId |-> msg.userId, username |-> msg.username])>>
    [] OTHER -> <<Event("messageReceived", [nodeId |-> id, message |-> msg])>>

\* The switch on message.type.
Dispatch(id, msg) ==
  CASE msg.type = "message" -> <<Event("messageReceived", [nodeId |-> id, message |-> msg])>>
    [] msg.type = "location" ->
         <<Event("locationReceived", [nodeId |-> id, userId |-> msg.userId, location |-> msg.payload])>>
    [] msg.type = "user" ->
         <<Event("userInfo", [nodeId |-> id, userId |-> msg.userId, username |-> msg.username])>>
    [] OTHER -> <<>>

\* Mutant: the age of the message is not compared with its ttl.
RelayedNoAge(msg, t) == msg.ttl # 0 /\ msg.timestamp # 0

\* Mutant: only chat messages are relayed.
RelayedChatOnly(msg, t) ==
  msg.type = "message" /\ msg.ttl # 0 /\ msg.timestamp # 0 /\ t - msg.timestamp < msg.ttl

\* Mutant: only messages with an id are relayed.
RelayedWithId(msg, t) ==
  msg.id # NoId /\ msg.ttl # 0 /\ msg.timestamp # 0 /\ t - msg.timestamp < msg.ttl

\* Mutant: the test is "not yet expired", which a message without a ttl passes.
RelayedUnlessExpired(msg, t) ==
  msg.timestamp # 0 /\ ~(msg.ttl # 0 /\ t - msg.timestamp >= msg.ttl)

\* message.ttl && message.timestamp && (Date.now() - message.timestamp < message.ttl)
Relayed(msg, t) == msg.ttl # 0 /\ msg.timestamp # 0 /\ t - msg.timestamp < msg.ttl

\* Mutant: the cache insertion is put off until after the handler has returned.
ReceiveCacheDeferred(cache, msg, t) == cache

\* The cache insertion of handleMessageReceived.
ReceiveCache(cache, msg, t) == IF msg.id # NoId THEN CachePut(cache, msg, t) ELSE cache

Count(f, i) == IF i \in DOMAIN f THEN f[i] ELSE 0
Bump(f, i) == [j \in DOMAIN f \cup {i} |-> IF j = i THEN Count(f, i) + 1 ELSE f[j]]

\* MeshService.handleMessageReceived
HandleMessageReceived(type, id, msg) ==
  /\ last' = [op |-> "handleMessageReceived", msg |-> msg,
              cached |-> (msg.id \in DOMAIN messages),
              repeat |-> IF /\ last.op = "handleMessageReceived" /\ last.msg = msg
                            /\ events # <<>> /\ events[1].data.nodeId = id
                           THEN id ELSE ""]
  /\ IF Accepted(msg)
       THEN LET cached == ReceiveCache(messages, msg, now)
            IN  /\ events' = Dispatch(id, msg)
                /\ IF Relayed(msg, now)
                     THEN /\ messages' = BroadcastCache(cached, msg, now)
                          /\ sends' \in {BroadcastSends(nodes, msg, btConnected, wifiConnected, f) : f \in Failings}
                     ELSE /\ messages' = cached
                          /\ sends' = <<>>
                /\ delivered' = IF msg.id # NoId /\ Dispatch(id, msg) # <<>>
                                  THEN Bump(delivered, msg.id) ELSE delivered
       ELSE /\ events' = <<>> /\ sends' = <<>>
            /\ UNCHANGED <<messages, delivered>>
  /\ Quiet
  /\ UNCHANGED <<userId, username, groupId, location, nodes, timer, subscribed>>
  /\ UNCHANGED <<now, nonce, pendingStops>>
  /\ invoked' = NotifyAll(events', listeners)
  /\ UNCHANGED <<listeners, handles, stopRequested, netStopped>>

\* The forEach of cleanupMessages: entries with expires < now are deleted.
Swept(cache, t) ==
  [i \in {j \in DOMAIN cache : ~(cache[j].expires # 0 /\ cache[j].expires < t)} |-> cache[i]]

\* MeshService.cleanupMessages.  No timer and no handler of the engine calls
\* it; it runs when the application calls it.
CleanupMessages ==
  /\ messages' = Swept(messages, now)
  /\ last' = [op |-> "cleanupMessages", removed |-> DOMAIN messages \ DOMAIN messages']
  /\ events' = <<>> /\ sends' = <<>>
  /\ Quiet
  /\ UNCHANGED <<userId, username, groupId, location, nodes, timer, subscribed>>
  /\ UNCHANGED adapterVars
  /\ UNCHANGED <<now, nonce, pendingStops, delivered>>
  /\ invoked' = <<>>
  /\ UNCHANGED <<listeners, handles, stopRequested, netStopped>>

\* ------------------------------------------------- networking lifecycle
\* MeshService.startNetworking, with what the adapters answer:
\*   btGranted   BluetoothService.requestPermissions (startScan swallows a refusal)
\*   wifi        "unavailable": isAvailable is false; "started": startDiscovery
\*               succeeds; "failed": startDiscovery throws (no permission, native error)
StartNetworkingEvents(btGranted, wifi) ==
  IF wifi = "failed"
    THEN <<Event("networkingError", [error |-> "startDiscovery"])>>
    ELSE <<Event("networkingStarted", [bluetooth |-> TRUE, wifiDirect |-> (wifi = "started")])>>

StartNetworking(btGranted, wifi) ==
  /\ last' = [op |-> "startNetworking", btStarted |-> btGranted, wifiStarted |-> (wifi = "started")]
  /\ btScanning' = btGranted
  /\ wifiDiscovering' = CASE wifi = "started" -> TRUE
                          [] wifi = "failed" -> FALSE
                          [] OTHER -> wifiDiscovering
  /\ events' = StartNetworkingEvents(btGranted, wifi)
  /\ result' = IF wifi = "failed" THEN "false" ELSE "true"
  /\ calls' = <<[fn |-> "startScan"], [fn |-> "isAvailable"]>>
              \o (IF wifi = "unavailable" THEN <<>> ELSE <<[fn |-> "startDiscovery"]>>)
  /\ sends' = <<>>
  /\ netStopped' = FALSE
  /\ invoked' = NotifyAll(events', listeners)
  /\ UNCHANGED engineVars
  /\ UNCHANGED <<btConnected, wifiConnected>>
  /\ UNCHANGED <<now, nonce, pendingStops, delivered, handles, stopRequested>>

\* Mutant: the WiFi Direct branch of the loop is missing.
DisconnectCallsBluetoothOnly(ns) ==
  LET bt == NodesOfType(ns, "bluetooth")
  IN  [i \in 1..Len(bt) |-> [fn |-> "disconnectDevice", id |-> bt[i].id]]

\* The forEach of stopNetworking: one disconnect request per registered node,
\* at the adapter the node's entry names.
DisconnectCalls(ns) ==
  [i \in 1..Len(ns) |->
     [fn |-> IF ns[i].type = "bluetooth" THEN "disconnectDevice" ELSE "disconnectFromPeer",
      id |-> ns[i].id]]

\* stopNetworking up to its await: stopScan, and the call of stopDiscovery.
StopCalls == <<[fn |-> "stopScan"], [fn |-> "stopDiscovery"]>>

\* WiFiDirectService.stopDiscovery returns at once unless discovery is on;
\* then it awaits the native module and stopNetworking stays suspended.
StopSuspends == wifiDiscovering

\* MeshService.stopNetworking called by the application.
StopNetworking ==
  /\ btScanning' = FALSE
  /\ IF StopSuspends
       THEN /\ pendingStops < MaxPending
            /\ pendingStops' = pendingStops + 1
            /\ last' = [op |-> "stopNetworking", phase |-> "suspended", nodes |-> nodes]
            /\ calls' = StopCalls
            /\ events' = <<>>
            /\ UNCHANGED <<nodes, timer>>
       ELSE /\ last' = [op |-> "stopNetworking", phase |-> "done", nodes |-> nodes]
            /\ calls' = StopCalls \o DisconnectCalls(nodes)
            /\ nodes' = <<>>
            /\ timer' = FALSE
            /\ events' = <<Event("networkingStopped", <<>>)>>
            /\ UNCHANGED pendingStops
  /\ sends' = <<>> /\ result' = "none"
  /\ stopRequested' = TRUE
  /\ netStopped' = IF StopSuspends THEN netStopped ELSE TRUE
  /\ invoked' = NotifyAll(events', listeners)
  /\ UNCHANGED <<userId, username, groupId, location, messages, subscribed>>
  /\ UNCHANGED <<btConnected, wifiConnected, wifiDiscovering>>
  /\ UNCHANGED <<now, nonce, delivered, listeners, handles>>

\* The native stopDiscovery returns: stopDiscovery clears isDiscovering and the
\* suspended stopNetworking runs from its await to its end.
StopNetworkingResume ==
  /\ pendingStops > 0
  /\ pendingStops' = pendingStops - 1
  /\ wifiDiscovering' = FALSE
  /\ last' = [op |-> "stopNetworking", phase |-> "resumed", nodes |-> nodes]
  /\ calls' = DisconnectCalls(nodes)
  /\ nodes' = <<>>
  /\ timer' = FALSE
  /\ events' = <<Event("networkingStopped", <<>>)>>
  /\ sends' = <<>> /\ result' = "none"
  /\ netStopped' = TRUE
  /\ invoked' = NotifyAll(events', listeners)
  /\ UNCHANGED <<userId, username, groupId, location, messages, subscribed>>
  /\ UNCHANGED <<btConnected, btScanning, wifiConnected>>
  /\ UNCHANGED <<now, nonce, delivered, listeners, handles, stopRequested>>

\* Mutant: a remover throws when its callback is no longer registered.
RemoveListenersStrict(sub) == IF sub THEN "none" ELSE "Error: listener not registered"

\* The removers cleanup calls on the adapters' subscriptions: each deletes its
\* callback from a Set, which is harmless when the callback is already gone.
RemoveListeners(sub) == "none"

\* Mutant: cleanup does not call the removers.
UnsubscribedNever(sub) == sub

\* After the removers of cleanup have run no callback of the engine is
\* registered at either adapter.
Unsubscribed(sub) == FALSE

\* MeshService.cleanup: it calls stopNetworking without awaiting it, so the rest
\* of cleanup runs before stopNetworking continues past its await.
Cleanup ==
  /\ btScanning' = FALSE
  /\ subscribed' = Unsubscribed(subscribed)
  /\ nodes' = <<>>
  /\ messages' = MessagesClear(messages)
  /\ delivered' = EmptyCache
  /\ IF StopSuspends
       THEN /\ pendingStops < MaxPending
            /\ pendingStops' = pendingStops + 1
            /\ last' = [op |-> "cleanup", phase |-> "suspended", nodes |-> nodes,
                        again |-> (last.op = "cleanup")]
            /\ calls' = StopCalls
            /\ events' = <<>>
            /\ UNCHANGED timer
       ELSE /\ last' = [op |-> "cleanup", phase |-> "done", nodes |-> nodes,
                        again |-> (last.op = "cleanup")]
            /\ calls' = StopCalls \o DisconnectCalls(<<>>)
            /\ timer' = FALSE
            /\ events' = <<Event("networkingStopped", <<>>)>>
            /\ UNCHANGED pendingStops
  /\ sends' = <<>> /\ result' = RemoveListeners(subscribed)
  /\ listeners' = NoListeners
  /\ stopRequested' = TRUE
  /\ netStopped' = IF StopSuspends THEN netStopped ELSE TRUE
  /\ invoked' = NotifyAll(events', listeners')
  /\ UNCHANGED <<userId, username, groupId, location>>
  /\ UNCHANGED <<btConnected, wifiConnected, wifiDiscovering>>
  /\ handles' = {Handle(h.event, h.callback, TRUE) : h \in handles}
  /\ UNCHANGED <<now, nonce>>

\* ------------------------------------------------------ adapter events
\* An adapter event no engine listener hears (after cleanup).
Unheard(op) ==
  /\ last' = [op |-> op]
  /\ events' = <<>> /\ sends' = <<>>
  /\ Quiet
  /\ UNCHANGED engineVars
  /\ UNCHANGED <<now, nonce, pendingStops, delivered>>
  /\ invoked' = <<>>
  /\ UNCHANGED <<handles, stopRequested, netStopped>>

\* A peer connects: BluetoothService.connectToDevice succeeds and notifies
\* deviceConnected, or the native onConnectionChanged event reports connected
\* and WiFiDirectService notifies peerConnected.
PeerConnected(type, id) ==
  /\ btConnected' = IF type = "bluetooth" THEN btConnected \cup {id} ELSE btConnected
  /\ wifiConnected' = IF type = "wifiDirect" THEN wifiConnected \cup {id} ELSE wifiConnected
  /\ UNCHANGED <<btScanning, wifiDiscovering>>
  /\ IF subscribed
       THEN HandleNodeConnected(type, id, btConnected', wifiConnected')
       ELSE Unheard("peerConnected")

\* A peer disconnects: BluetoothService.disconnectDevice completes and notifies
\* deviceDisconnected, or onConnectionChanged reports not connected.
PeerDisconnected(type, id) ==
  /\ AdapterHas(type, id, btConnected, wifiConnected)
  /\ btConnected' = IF type = "bluetooth" THEN btConnected \ {id} ELSE btConnected
  /\ wifiConnected' = IF type = "wifiDirect" THEN wifiConnected \ {id} ELSE wifiConnected
  /\ UNCHANGED <<btScanning, wifiDiscovering>>
  /\ IF subscribed
       THEN HandleNodeDisconnected(type, id)
       ELSE Unheard("peerDisconnected")

\* A payload arrives from a connected peer and parses as JSON.
MessageArrives(type, id, msg) ==
  /\ AdapterHas(type, id, btConnected, wifiConnected)
  /\ UNCHANGED adapterVars
  /\ IF subscribed
       THEN HandleMessageReceived(type, id, msg)
       ELSE Unheard("messageReceived")

\* The battery timers of startScan and startDiscovery stop discovery again.
DiscoveryTimeout ==
  /\ btScanning \/ wifiDiscovering
  /\ \/ btScanning /\ btScanning' = FALSE /\ UNCHANGED wifiDiscovering
     \/ wifiDiscovering /\ wifiDiscovering' = FALSE /\ UNCHANGED btScanning
  /\ UNCHANGED <<btConnected, wifiConnected>>
  /\ Unheard("discoveryTimeout")

\* Time passes.
Tick ==
  /\ now + ClockStep \in Clock
  /\ now' = now + ClockStep
  /\ last' = [op |-> "tick"]
  /\ events' = <<>> /\ sends' = <<>> /\ calls' = <<>> /\ result' = "none"
  /\ UNCHANGED engineVars
  /\ UNCHANGED adapterVars
  /\ UNCHANGED <<nonce, pendingStops, delivered>>
  /\ invoked' = <<>>
  /\ UNCHANGED <<handles, stopRequested, netStopped>>

\* Time passes, up to an instant by which an entry cached at the start has expired.
SweepEnd == StartTime + messageTimeout + MaxTicks * ClockStep
Elapse ==
  /\ now + ClockStep <= SweepEnd
  /\ now' = now + ClockStep
  /\ last' = [op |-> "elapse"]
  /\ events' = <<>> /\ sends' = <<>> /\ calls' = <<>> /\ result' = "none"
  /\ UNCHANGED engineVars
  /\ UNCHANGED adapterVars
  /\ UNCHANGED <<nonce, pendingStops, delivered>>
  /\ invoked' = <<>>
  /\ UNCHANGED <<handles, stopRequested, netStopped>>

\* -------------------------------------------------------- inbound traffic
\* Messages of another user.  With an id: the plain chat message and every
\* departure from it in one field.  Without an id: a chat message of either
\* group, and the location and presence messages as an engine builds them.
ForeignId == MessageId("u2", StartTime, 1)
PlainTiming == <<StartTime, messageTimeout>>
Timings == {PlainTiming,                               \* live for the whole run
            <<StartTime, ClockStep>>,                  \* runs out as the clock advances
            <<StartTime - ClockStep, ClockStep \div 6>>,  \* ran out before the run
            <<0, messageTimeout>>,                     \* no timestamp
            <<StartTime, 0>>}                          \* no ttl
Foreign(id, type, gid, timing) == Message(id, type, "u2", "Bob", gid, "hi", timing[1], timing[2])
ForeignMsgs ==
  {Foreign(ForeignId, ty, "g1", PlainTiming) : ty \in MsgTypes}
  \cup {Foreign(ForeignId, "message", g, PlainTiming) : g \in GroupIds \cup {""}}
  \cup {Foreign(ForeignId, "message", "g1", tm) : tm \in Timings}
  \cup {Foreign(NoId, "message", g, PlainTiming) : g \in GroupIds}
  \cup {Foreign(NoId, ty, "g1", <<StartTime, 0>>) : ty \in {"location", "user"}}
\* What a neighbour can send: its own messages, and cached ones flooded back.
InboundMsgs == ForeignMsgs \cup {messages[i].msg : i \in DOMAIN messages}
\* What a caller hands to broadcastMessage.
BroadcastInputs == {Foreign(i, "message", "g1", PlainTiming) : i \in {ForeignId, NoId}}

\* Traffic of the sweep runs: the plain chat message, one that lives twice as
\* long as the engine's timeout, and one of a sender whose clock is ahead.
LongId == MessageId("u2", StartTime, 2)
AheadId == MessageId("u2", StartTime + messageTimeout, 3)
SweepMsgs ==
  {Foreign(ForeignId, "message", "g1", PlainTiming),
   Foreign(LongId, "message", "g1", <<StartTime, 2 * messageTimeout>>),
   Foreign(AheadId, "message", "g1", <<StartTime + messageTimeout, messageTimeout>>)}

\* The links of the messaging runs: one node per transport.
MeshLinks == {<<"bluetooth", "n1">>, <<"wifiDirect", "n2">>}
\* The links of the lifecycle runs: n1 is reachable over both transports.
AllLinks == MeshLinks \cup {<<"wifiDirect", "n1">>}

\* The messaging core: one session group, peers, traffic in and out.
MeshNext ==
  \/ \E a \in MeshInitArgs : Initialize(a[1], a[2], a[3])
  \/ SendMessage("hi")
  \/ \E m \in BroadcastInputs : BroadcastMessage(m)
  \/ \E l \in Locations : UpdateLocation("updateLocation", l)
  \/ TimerTick
  \/ \E k \in MeshLinks : PeerConnected(k[1], k[2])
  \/ \E k \in MeshLinks : PeerDisconnected(k[1], k[2])
  \/ \E k \in MeshLinks, m \in InboundMsgs : MessageArrives(k[1], k[2], m)
  \/ Tick

Spec == Init /\ [][MeshNext]_vars

\* The receive path alone: sessions, peers, inbound traffic, time.
ArrivalNext ==
  \/ \E a \in MeshInitArgs : Initialize(a[1], a[2], a[3])
  \/ \E k \in MeshLinks : PeerConnected(k[1], k[2])
  \/ \E k \in MeshLinks : PeerDisconnected(k[1], k[2])
  \/ \E k \in MeshLinks, m \in InboundMsgs : MessageArrives(k[1], k[2], m)
  \/ Tick

SpecArrival == Init /\ [][ArrivalNext]_vars

\* The networking lifecycle: sessions, start and stop, teardown, peers.
LifecycleNext ==
  \/ \E a \in InitArgs : Initialize(a[1], a[2], a[3])
  \/ \E b \in BOOLEAN, w \in {"unavailable", "started", "failed"} : StartNetworking(b, w)
  \/ StopNetworking
  \/ StopNetworkingResume
  \/ Cleanup
  \/ SendMessage("hi")
  \/ \E l \in Locations : UpdateLocation("updateLocation", l)
  \/ TimerTick
  \/ \E k \in AllLinks : PeerConnected(k[1], k[2])
  \/ \E k \in AllLinks : PeerDisconnected(k[1], k[2])
  \/ DiscoveryTimeout

SpecLifecycle == Init /\ [][LifecycleNext]_vars

\* The application's subscriptions: registration, deregistration, dispatch, teardown.
ListenerNext ==
  \/ Initialize("u1", "Alice", "g1")
  \/ \E e \in ListenEvents, cb \in Callbacks : AddListener(e, cb)
  \/ \E e \in ListenEvents, cb \in Callbacks, st \in BOOLEAN : Deregister(e, cb, st)
  \/ \E l \in Locations : UpdateLocation("updateLocation", l)
  \/ StartNetworking(TRUE, "started")
  \/ StopNetworkingResume
  \/ Cleanup

SpecListeners == Init /\ [][ListenerNext]_vars

\* Teardown under traffic: a session, peers and inbound messages before and
\* after cleanup.
TeardownNext ==
  \/ Initialize("u1", "Alice", "g1")
  \/ StartNetworking(TRUE, "started")
  \/ Cleanup
  \/ StopNetworkingResume
  \/ \E k \in MeshLinks : PeerConnected(k[1], k[2])
  \/ \E k \in MeshLinks : PeerDisconnected(k[1], k[2])
  \/ \E k \in MeshLinks, m \in BroadcastInputs : MessageArrives(k[1], k[2], m)

SpecTeardown == Init /\ [][TeardownNext]_vars

\* Subscribers that subscribe and unsubscribe while locationUpdated is being
\* dispatched.  A dispatch that never returns holds the only thread: nothing
\* runs after it.
Running == result # "never returns"
DispatchNext ==
  \/ Running /\ Initialize("u1", "Alice", "g1")
  \/ Running /\ \E cb \in DispatchCallbacks : AddListener("locationUpdated", cb)
  \/ Running /\ \E l \in Locations : UpdateLocation("updateLocation", l)

SpecDispatch == Init /\ [][DispatchNext]_vars

\* The cache over time: one session, peers, inbound traffic, the sweep, and a
\* clock that runs past the expiry of the entries.
SweepNext ==
  \/ Initialize("u1", "Alice", "g1")
  \/ \E k \in MeshLinks : PeerConnected(k[1], k[2])
  \/ \E k \in MeshLinks, m \in SweepMsgs : MessageArrives(k[1], k[2], m)
  \/ CleanupMessages
  \/ Elapse

SpecSweep == Init /\ [][SweepNext]_vars

\* The same, with the scheduling the code provides: time passes.  Nothing in
\* the engine schedules cleanupMessages, so it has no fairness.
SpecSweepFair == SpecSweep /\ WF_vars(Elapse)

\* ================================================================ claims
IdentitySet == userId # "" /\ groupId # ""
Received == last.op = "handleMessageReceived"
ReceiveEvents == {"messageReceived", "locationReceived", "userInfo"}
Dispatchable == {"message", "location", "user"}

\* C1 (dedup): within a session no message id is delivered to the listeners more
\* than once.  A receipt of an in-group message whose id is already cached emits
\* nothing; the first receipt of an id emits exactly one receive event when the
\* type is message, location or user; so the same message received twice has
\* produced exactly one event.
C1_Dedup ==
  /\ \A i \in DOMAIN delivered : delivered[i] <= 1
  /\ (Received /\ IdentitySet /\ last.msg.id # NoId /\ last.msg.groupId \in {"", groupId}) =>
       /\ last.cached => events = <<>>
       /\ (~last.cached /\ last.msg.type \in Dispatchable) =>
            /\ Len(events) = 1
            /\ events[1].name \in ReceiveEvents
            /\ Count(delivered, last.msg.id) = 1
C1_Witness ==
  /\ Received /\ IdentitySet /\ last.cached
  /\ last.msg.groupId = groupId
  /\ Count(delivered, last.msg.id) = 1
  /\ events = <<>>

\* C2 (group isolation): a received message carrying a group id other than the
\* active one emits no event, triggers no send and is not put in the cache.
C2_GroupIsolation ==
  (Received /\ last.msg.groupId # "" /\ last.msg.groupId # groupId) =>
    /\ events = <<>>
    /\ sends = <<>>
    /\ \A i \in DOMAIN messages : messages[i].msg # last.msg
    /\ last.msg.id \in DOMAIN messages => last.cached
C2_Witness ==
  /\ Received /\ IdentitySet
  /\ last.msg.groupId = "g2" /\ groupId = "g1"
  /\ last.msg.id # NoId /\ ~last.cached
  /\ nodes # <<>>

\* C3 (not initialized): while userId or groupId is unset, sendMessage throws the
\* not-initialized error, emits nothing, sends nothing and caches nothing, and
\* broadcastMessage sends nothing and caches nothing.
C3_NotInitialized ==
  (~IdentitySet /\ last.op \in {"sendMessage", "broadcastMessage"}) =>
    /\ sends = <<>>
    /\ events = <<>>
    /\ messages = EmptyCache
    /\ last.op = "sendMessage" => result = "Error: Mesh network not initialized"
    /\ last.op = "broadcastMessage" => result = "none"
C3_Witness ==
  /\ userId # "" /\ groupId = ""
  /\ last.op = "sendMessage"
  /\ nodes # <<>>
  /\ result = "Error: Mesh network not initialized"

\* C4 (ttl expiry blocks relay): a received message with timestamp + ttl < now
\* triggers no send; it emits at most one event, and none when its id is cached.
Expired(msg) == msg.timestamp # 0 /\ msg.ttl # 0 /\ msg.timestamp + msg.ttl < now
C4_ExpiredNotRelayed ==
  (Received /\ Expired(last.msg)) =>
    /\ sends = <<>>
    /\ Len(events) <= 1
    /\ last.cached => events = <<>>
    /\ Count(delivered, last.msg.id) <= 1
C4_Witness ==
  /\ Received /\ Expired(last.msg)
  /\ Len(events) = 1
  /\ Len(nodes) = 2
  /\ sends = <<>>

\* C5 (fan-out): broadcastMessage on an initialized engine issues exactly one send
\* attempt per registered node, on the transport of that node's entry and with
\* the message given, whether or not other attempts fail.
SendsTo(id) == {j \in 1..Len(sends) : sends[j].to = id}
OnePerNode(msg) ==
  /\ Len(sends) = Len(nodes)
  /\ \A i \in 1..Len(nodes) :
       /\ Cardinality(SendsTo(nodes[i].id)) = 1
       /\ \A j \in SendsTo(nodes[i].id) : sends[j].via = nodes[i].type /\ sends[j].msg = msg
C5_FanOut == (last.op = "broadcastMessage" /\ IdentitySet) => OnePerNode(last.msg)
C5_Witness ==
  /\ last.op = "broadcastMessage" /\ IdentitySet
  /\ Len(nodes) = 2
  /\ ~sends[1].ok /\ sends[2].ok
  /\ sends[1].via # sends[2].via

\* C6 as claimed (new-node greeting): every node-connected event sends, to the new
\* node only and over the transport it connected on, exactly one presence message
\* with the current user id, name and group, and one location message if and only
\* if a location is known.
Connected == last.op = "handleNodeConnected"
SendsOfType(ty) == {j \in 1..Len(sends) : sends[j].msg.type = ty}
GreetingSent ==
  /\ \A j \in 1..Len(sends) : sends[j].to = last.nodeId /\ sends[j].via = last.type
  /\ Cardinality(SendsOfType("user")) = 1
  /\ \A j \in SendsOfType("user") :
       /\ sends[j].msg.userId = userId
       /\ sends[j].msg.username = username
       /\ sends[j].msg.groupId = groupId
  /\ Cardinality(SendsOfType("location")) = (IF location # "" THEN 1 ELSE 0)
  /\ \A j \in SendsOfType("location") : sends[j].msg.payload = location
  /\ Len(sends) = Cardinality(SendsOfType("user")) + Cardinality(SendsOfType("location"))
C6_Claimed == Connected => GreetingSent

\* C6 as amended: the greeting is sent on every node-connected event that arrives
\* while userId and groupId are set; while either is unset nothing is sent.
C6_Greeting == Connected => IF IdentitySet THEN GreetingSent ELSE sends = <<>>
C6_Witness ==
  /\ Connected /\ IdentitySet
  /\ location # ""
  /\ Len(sends) = 2
  /\ Len(nodes) = 2

\* C7 (sendMessage): on an initialized engine sendMessage builds a chat message
\* with a fresh id and ttl 60000, caches it with expiry now + 60000, attempts one
\* send per registered node, emits messageSent with the message and returns its id.
C7_SendMessage ==
  (last.op = "sendMessage" /\ IdentitySet) =>
    /\ Len(events) = 1
    /\ events[1].name = "messageSent"
    /\ LET m == events[1].data
       IN  /\ m.id = result /\ m.id # NoId /\ last.fresh
           /\ m.type = "message" /\ m.ttl = 60000 /\ m.timestamp = now
           /\ m.userId = userId /\ m.username = username /\ m.groupId = groupId
           /\ m.payload = last.content
           /\ m.id \in DOMAIN messages
           /\ messages[m.id] = [msg |-> m, expires |-> now + 60000]
           /\ OnePerNode(m)
C7_Witness ==
  /\ last.op = "sendMessage" /\ IdentitySet
  /\ Len(nodes) = 2 /\ nodes[1].type # nodes[2].type
  /\ Len(sends) = 2
  /\ result \in DOMAIN messages

\* C8 (initialize): after initialize the identity is the one given, registry and
\* cache are empty, the timer runs and initialized was emitted, whatever the state
\* before; a second call with the same arguments changes nothing in the engine.
InitializeDone ==
  last.op = "initialize" =>
    /\ userId = last.userId /\ username = last.username /\ groupId = last.groupId
    /\ nodes = <<>>
    /\ messages = EmptyCache
    /\ timer
    /\ result = "true"
    /\ events = <<Event("initialized", [userId |-> last.userId, username |-> last.username,
                                        groupId |-> last.groupId])>>
InitializeTwice ==
  (/\ last.op = "initialize" /\ last'.op = "initialize"
   /\ last'.userId = last.userId /\ last'.username = last.username
   /\ last'.groupId = last.groupId) =>
    /\ UNCHANGED <<engineVars, events, result>>
C8_Initialize == []InitializeDone /\ [][InitializeTwice]_vars
C8_Witness ==
  /\ last.op = "initialize"
  /\ last.groupId = "g2" /\ last.before.groupId = "g1"
  /\ last.before.nodes = 2 /\ last.before.messages > 0

\* C9 (stopNetworking): when stopNetworking has run to its end, scanning and
\* discovery were switched off at both adapters, a disconnect was requested at
\* the adapter of its entry for every node the registry held, the registry is
\* empty, the timer is off and networkingStopped was emitted.
DisconnectFn(type) == IF type = "bluetooth" THEN "disconnectDevice" ELSE "disconnectFromPeer"
Requested(fn) == {j \in 1..Len(calls) : calls[j].fn = fn}
Disconnects == Requested("disconnectDevice") \cup Requested("disconnectFromPeer")
C10_Claimed ==
  last.op = "startNetworking" =>
    /\ (last.btStarted \/ last.wifiStarted) =>
         /\ result = "true"
         /\ Len(events) = 1 /\ events[1].name = "networkingStarted"
    /\ (result = "false" \/ \E j \in 1..Len(events) : events[j].name = "networkingError") =>
         ~last.btStarted /\ ~last.wifiStarted

\* C11 as claimed (location broadcaster): once stopNetworking or cleanup has been
\* called, the periodic location task does not fire again until the broadcaster
\* is restarted, whatever the interleaving with the await of stopNetworking.
C11_Claimed == last.op = "timer" => ~stopRequested

\* C12 as claimed (stop is effective for sends): after stopNetworking has
\* returned, no handler issues an adapter send until startNetworking is called.
C12_Claimed == netStopped => sends = <<>>

\* C13 as claimed (teardown clears the identity): after cleanup userId, username,
\* groupId and location are unset, and a sendMessage that follows fails with the
\* not-initialized error.
IdentityCleared ==
  last.op = "cleanup" => userId = "" /\ username = "" /\ groupId = "" /\ location = ""
SendAfterCleanupFails ==
  (last.op = "cleanup" /\ last'.op = "sendMessage") =>
    result' = "Error: Mesh network not initialized"
C13_Claimed == []IdentityCleared /\ [][SendAfterCleanupFails]_vars

\* C14 (double teardown): a cleanup that directly follows a cleanup raises no
\* error and leaves registry, cache, listeners, timer and the adapter
\* subscriptions as the first cleanup left them.
CleanupTwice ==
  (last.op = "cleanup" /\ last'.op = "cleanup") =>
    /\ result' = "none"
    /\ UNCHANGED <<nodes, messages, listeners, timer, subscribed>>
    /\ UNCHANGED <<userId, username, groupId, location>>
C14_DoubleTeardown == [][CleanupTwice]_vars
C14_Witness ==
  /\ last.op = "cleanup" /\ last.again
  /\ IdentitySet
  /\ handles # {}
  /\ ~subscribed /\ ~timer

\* C15 as claimed (deregistration handle): addListener returns a handle; calling
\* it removes only that callback from that event; calling it after cleanup or
\* for the second time raises no error and changes no state.
Deregistered == last.op = "deregister"
Subscribers(ls, e) == IF e \in DOMAIN ls THEN ls[e] ELSE <<>>
AddListenerReturnsHandle ==
  last.op = "addListener" =>
    /\ result = "handle"
    /\ Handle(last.event, last.callback, FALSE) \in handles
    /\ Registered(listeners, last.event, last.callback)
OnlyThatCallback ==
  last'.op = "deregister" =>
    /\ result' = "none"
    /\ \A e \in ListenEvents :
         Subscribers(listeners', e) =
           IF e = last'.event
             THEN SelectSeq(Subscribers(listeners, e), LAMBDA c : c # last'.callback)
             ELSE Subscribers(listeners, e)
    /\ UNCHANGED <<userId, username, groupId, location, nodes, messages, timer, subscribed>>
StaleIsNoOp == (Deregistered /\ last.stale) => ~last.removed
C15_Claimed == [](AddListenerReturnsHandle /\ StaleIsNoOp) /\ [][OnlyThatCallback]_vars

\* C15 as amended: the handle removes that callback, and nothing else, from that
\* event's set and never raises; called after cleanup or for the second time it
\* changes no state unless the same callback has been registered for that event
\* again, and then it removes that registration.
NoOpUnlessRegistered ==
  (last'.op = "deregister" /\ ~Registered(listeners, last'.event, last'.callback)) =>
    UNCHANGED engineVars
C15_Handle == []AddListenerReturnsHandle /\ [][OnlyThatCallback /\ NoOpUnlessRegistered]_vars
C15_Witness ==
  /\ Deregistered /\ last.stale /\ last.removed
  /\ ~subscribed
  /\ \E e \in DOMAIN listeners : listeners[e] # <<>>

\* C16 (a subscriber that throws): in every dispatch each callback registered
\* for the event is invoked exactly once, whether or not another callback of
\* the same event threw, and the emitting operation completes as usual.
Emitted(e) == {i \in 1..Len(events) : events[i].name = e}
InvokedFor(e, cb) == {i \in 1..Len(invoked) : invoked[i].event = e /\ invoked[i].callback = cb}
SomeThrew == \E i \in 1..Len(invoked) : invoked[i].threw
C16_ThrowingSubscriber ==
  /\ \A e \in ListenEvents, cb \in Callbacks :
       Registered(listeners, e, cb) =>
         Cardinality(InvokedFor(e, cb)) = Cardinality(Emitted(e))
  /\ SomeThrew =>
       /\ last.op = "initialize" => result = "true" /\ timer /\ userId = last.userId
       /\ last.op = "updateLocation" => result = "none" /\ location = last.location
C16_Witness ==
  /\ last.op = "updateLocation"
  /\ Len(invoked) = 2
  /\ invoked[1].threw /\ ~invoked[2].threw
  /\ invoked[1].event = invoked[2].event

\* C17 as claimed (updateLocation): updateLocation sets the current location,
\* issues one location send attempt to every registered node, emits
\* locationUpdated, and leaves registry and cache unchanged.
LocationUpdated == last.op \in {"updateLocation", "timer"}
LocationSetAndEmitted ==
  /\ location = last.location
  /\ events = <<Event("locationUpdated", [userId |-> userId, location |-> last.location])>>
  /\ result = "none"
LocationFanOut ==
  /\ Len(sends) = Len(nodes)
  /\ \A i \in 1..Len(nodes) :
       /\ Cardinality(SendsTo(nodes[i].id)) = 1
       /\ \A j \in SendsTo(nodes[i].id) :
            /\ sends[j].via = nodes[i].type
            /\ sends[j].msg.type = "location"
            /\ sends[j].msg.payload = last.location
            /\ sends[j].msg.userId = userId /\ sends[j].msg.groupId = groupId
UpdateLocationKeeps ==
  last'.op \in {"updateLocation", "timer"} => UNCHANGED <<nodes, messages>>
C17_Claimed ==
  /\ [](LocationUpdated => LocationSetAndEmitted /\ LocationFanOut)
  /\ [][UpdateLocationKeeps]_vars

\* C17 as amended: the send attempts are issued while userId and groupId are
\* set; while either is unset updateLocation still sets the location and emits
\* locationUpdated but sends nothing.
C17_UpdateLocation ==
  /\ [](LocationUpdated =>
         /\ LocationSetAndEmitted
         /\ IF IdentitySet THEN LocationFanOut ELSE sends = <<>>)
  /\ [][UpdateLocationKeeps]_vars
C17_Witness ==
  /\ last.op = "updateLocation" /\ IdentitySet
  /\ Len(nodes) = 2 /\ nodes[1].type # nodes[2].type
  /\ Len(sends) = 2 /\ ~sends[1].ok /\ sends[2].ok
  /\ messages # EmptyCache

\* C18 as claimed (no type): a received message without a type is dropped: it
\* emits no event, is not relayed and is not put in the cache.
Untyped == Received /\ last.msg.type = ""
C18_Claimed ==
  Untyped =>
    /\ events = <<>>
    /\ sends = <<>>
    /\ last.msg.id \in DOMAIN messages => last.cached

\* C18 as amended: a received message without a type emits no event; when it
\* passes the identity, group and duplicate checks it is still cached under its
\* id and relayed to every registered node while its ttl is live.
PassedChecks ==
  /\ IdentitySet
  /\ last.msg.groupId \in {"", groupId}
  /\ ~last.cached
C18_NoType ==
  Untyped =>
    /\ events = <<>>
    /\ invoked = <<>>
    /\ IF PassedChecks
         THEN /\ last.msg.id # NoId =>
                   /\ last.msg.id \in DOMAIN messages
                   /\ messages[last.msg.id] = CacheEntry(last.msg, now)
              /\ IF Relayed(last.msg, now) THEN OnePerNode(last.msg) ELSE sends = <<>>
         ELSE sends = <<>>
C18_Witness ==
  /\ Untyped /\ PassedChecks
  /\ Len(nodes) = 2
  /\ Len(sends) = 2
  /\ events = <<>>

\* C19 as claimed (send failure): when a send attempt of a broadcast fails, the
\* engine emits messageError, and the broadcast still attempts every node.
Broadcasting ==
  last.op \in {"broadcastMessage", "sendMessage", "updateLocation", "timer", "handleMessageReceived"}
SomeSendFailed == \E j \in 1..Len(sends) : ~sends[j].ok
C19_Claimed ==
  (Broadcasting /\ SomeSendFailed) =>
    /\ \E i \in 1..Len(events) : events[i].name = "messageError"
    /\ Len(sends) = Len(nodes)

\* C20 (arrival order): a message is processed to its end (cache insertion,
\* event, relay) in the handler run of its arrival, so the next message is
\* processed against the state the earlier one left: the earlier cache entry is
\* there and stays, and a repeat of the earlier message, from the same node over
\* the same transport in particular, is recognised as a duplicate.
\* last.repeat names the node when the handler run before this one delivered
\* this very message from that node to the listeners.
ProcessedOnArrival ==
  (Received /\ PassedChecks) =>
    /\ last.msg.id # NoId => last.msg.id \in DOMAIN messages
    /\ \E id \in NodeIds : events = Dispatch(id, last.msg)
    /\ IF Relayed(last.msg, now) THEN OnePerNode(last.msg) ELSE sends = <<>>
NextArrival == Received /\ last'.op = "handleMessageReceived"
EarlierFirst ==
  NextArrival =>
    /\ \A i \in DOMAIN messages : i \in DOMAIN messages' /\ messages'[i] = messages[i]
    /\ last'.cached = (last'.msg.id \in DOMAIN messages)
    /\ (PassedChecks /\ last.msg.id # NoId /\ last'.msg.id = last.msg.id) =>
         /\ last'.cached
         /\ events' = <<>> /\ sends' = <<>>
    /\ last'.repeat # "" =>
         /\ last'.msg = last.msg
         /\ events[1].data.nodeId = last'.repeat
         /\ last.msg.id # NoId => events' = <<>> /\ sends' = <<>>
C20_ArrivalOrder == []ProcessedOnArrival /\ [][EarlierFirst]_vars
C20_Witness ==
  /\ Received /\ last.repeat = "n2"
  /\ last.cached /\ last.msg.ttl = 0
  /\ Count(delivered, last.msg.id) = 1
  /\ events = <<>>
  /\ Len(nodes) = 2

\* C21 (relay): every accepted inbound message that carries a timestamp and a
\* ttl with now - timestamp < ttl is sent again, unchanged and under the same
\* id, once to every node of the registry, the node it arrived from included
\* when it is registered; by the end of that handler run the message is in the
\* cache under its id and has been dispatched, and the relay added no second
\* cache entry.
Live(msg) == msg.timestamp # 0 /\ msg.ttl # 0 /\ now - msg.timestamp < msg.ttl
Arrived(id) == events # <<>> /\ events[1].data.nodeId = id
SecondReceiptSilent ==
  (Received /\ last.cached) => events = <<>> /\ sends = <<>> /\ invoked = <<>>
RelaysOnFirstSight ==
  (last'.op = "handleMessageReceived" /\ last'.msg.id # NoId /\ sends' # <<>>) =>
    /\ last'.msg.id \notin DOMAIN messages
    /\ last'.msg.id \in DOMAIN messages'
SessionKeepsIds ==
  last'.op # "initialize" =>
    \A i \in DOMAIN messages : i \in DOMAIN messages'
SecondReceiptKeepsCache ==
  (last'.op = "handleMessageReceived" /\ last'.cached) =>
    /\ messages' = messages
    /\ delivered' = delivered
C22_FloodBounded ==
  /\ []SecondReceiptSilent
  /\ [][RelaysOnFirstSight /\ SessionKeepsIds /\ SecondReceiptKeepsCache]_vars
C22_Witness ==
  /\ Received /\ last.cached /\ IdentitySet
  /\ Live(last.msg) /\ last.msg.groupId = groupId
  /\ Len(nodes) = 2
  /\ sends = <<>> /\ events = <<>>
  /\ Count(delivered, last.msg.id) = 1

\* C23 as claimed (no identifier): every receipt of an in-group message without
\* an id is processed whatever the cache holds, puts nothing into the cache and
\* issues no relay send, a timestamp and an unexpired ttl notwithstanding.
Anonymous == Received /\ IdentitySet /\ last.msg.id = NoId /\ last.msg.groupId \in {"", groupId}
C23_Claimed ==
  Anonymous =>
    /\ \E id \in NodeIds : events = Dispatch(id, last.msg)
    /\ NoId \notin DOMAIN messages
    /\ sends = <<>>

\* C24 (no timestamp or no ttl): an inbound message that lacks its timestamp or
\* its ttl is never relayed; when it passes the identity, group and duplicate
\* checks and is of a dispatched kind, it is still handed to the listeners, in
\* one event, and an id is counted as delivered once.
Undated(msg) == msg.timestamp = 0 \/ msg.ttl = 0
C24_Undated ==
  (Received /\ Undated(last.msg)) =>
    /\ sends = <<>>
    /\ (PassedChecks /\ last.msg.type \in Dispatchable) =>
         /\ Len(events) = 1
         /\ \E id \in NodeIds : events = Dispatch(id, last.msg)
         /\ last.msg.id # NoId => Count(delivered, last.msg.id) = 1
C24_Witness ==
  /\ Received /\ PassedChecks
  /\ last.msg.timestamp = 0 /\ last.msg.ttl # 0
  /\ last.msg.id # NoId
  /\ Len(nodes) = 2
  /\ Len(events) = 1 /\ events[1].name = "messageReceived"
  /\ sends = <<>>
C24_WitnessNoTtl ==
  /\ Received /\ PassedChecks
  /\ last.msg.ttl = 0 /\ last.msg.timestamp # 0
  /\ last.msg.id = NoId
  /\ Len(nodes) = 2
  /\ Len(events) = 1 /\ events[1].name = "locationReceived"
  /\ sends = <<>>

\* C25 as claimed (cache expiry): the cache entry of an accepted inbound message
\* expires at the time of processing plus the message's own ttl.
Inserted == Received /\ PassedChecks /\ last.msg.id # NoId
EventOfKind ==
  [message |-> "messageReceived", location |-> "locationReceived",
   user |-> "userInfo", status |-> "messageReceived"]
C26_Claimed ==
  (Received /\ PassedChecks /\ last.msg.type \in DOMAIN EventOfKind) =>
    /\ Len(events) = 1
    /\ events[1].name = EventOfKind[last.msg.type]

\* C27 (identity unset): while userId or groupId is empty every inbound message
\* is dropped in silence: no event, no callback, no send, and the handler run
\* leaves cache, registry, location and identity as they were.
DroppedSilently ==
  (Received /\ ~IdentitySet) => events = <<>> /\ invoked = <<>> /\ sends = <<>>
DropChangesNothing ==
  (last'.op = "handleMessageReceived" /\ ~IdentitySet) =>
    UNCHANGED <<messages, nodes, location, userId, username, groupId, delivered>>
C27_IdentityUnset == []DroppedSilently /\ [][DropChangesNothing]_vars
C27_Witness ==
  /\ Received /\ userId # "" /\ groupId = ""
  /\ last.msg.id # NoId /\ Live(last.msg) /\ last.msg.type = "message"
  /\ Len(nodes) = 2
  /\ messages = EmptyCache
  /\ events = <<>> /\ sends = <<>>

\* C28 as claimed (cache sweep): while the engine keeps running, every cache
\* entry is removed at some time after its expiry has passed.
SweepIds == {m.id : m \in SweepMsgs}
Stale(i) == i \in DOMAIN messages /\ messages[i].expires < now
C28_Claimed == \A i \in SweepIds : Stale(i) ~> (i \notin DOMAIN messages)

\* C29 as claimed (dedup under sweep): however the sweep is interleaved with
\* the receipts, a message id whose ttl has not elapsed is delivered and
\* relayed at most once: a receipt of an id that was delivered before in the
\* session, while the message is live, emits no event and issues no send.
SeenBefore(msg) == msg.id # NoId /\ Count(delivered, msg.id) >= 1
LiveRepeat == last'.op = "handleMessageReceived" /\ Live(last'.msg) /\ SeenBefore(last'.msg)
C29_Claimed == [][LiveRepeat => (events' = <<>> /\ sends' = <<>>)]_vars

\* C30 as claimed (one entry per transport): the registry tracks a node id per
\* transport kind: a connection adds the entry of its id and transport and
\* leaves every other entry as it is, the entry of the same id on the other
\* transport included, and a disconnection takes away the entry of its own id
\* and transport and no other.
Entries(ns) == {ns[i] : i \in 1..Len(ns)}
ConnectAddsEntry ==
  last'.op = "handleNodeConnected" =>
    Entries(nodes') = Entries(nodes) \cup {[id |-> last'.nodeId, type |-> last'.type]}
DisconnectTakesOwnEntry ==
  last'.op = "handleNodeDisconnected" =>
    Entries(nodes') = Entries(nodes) \ {[id |-> last'.nodeId, type |-> last'.type]}
C30_Claimed == [][ConnectAddsEntry /\ DisconnectTakesOwnEntry]_vars

\* C31 (registry follows adapter events): a node-connected event creates the
\* entry of its node id, or overwrites the one that id has, and emits
\* nodeConnected; a node-disconnected event removes the entry of its node id and
\* emits nodeDisconnected exactly when the registry held that id, so never for an
\* unregistered node and not a second time for a connection already
\* removed; at no time do two entries share a node id.
UniqueIds == \A i, j \in 1..Len(nodes) : nodes[i].id = nodes[j].id => i = j
ConnectedRegistered ==
  Connected =>
    /\ events = <<Event("nodeConnected", [type |-> last.type, nodeId |-> last.nodeId])>>
    /\ [id |-> last.nodeId, type |-> last.type] \in Entries(nodes)
DisconnectedRemoved ==
  last.op = "handleNodeDisconnected" =>
    /\ ~NodesHas(nodes, last.nodeId)
    /\ \A i \in 1..Len(events) : events[i].name = "nodeDisconnected"
ConnectOverwrites ==
  last'.op = "handleNodeConnected" =>
    Entries(nodes') = {e \in Entries(nodes) : e.id # last'.nodeId}
                        \cup {[id |-> last'.nodeId, type |-> last'.type]}
DisconnectEmitsIfRegistered ==
  last'.op = "handleNodeDisconnected" =>
    /\ Entries(nodes') = {e \in Entries(nodes) : e.id # last'.nodeId}
    /\ events' = IF NodesHas(nodes, last'.nodeId)
                   THEN <<Event("nodeDisconnected", [type |-> last'.type, nodeId |-> last'.nodeId])>>
                   ELSE <<>>
NoEventOtherwise ==
  (\E i \in 1..Len(events') : events'[i].name = "nodeDisconnected") =>
    /\ last'.op = "handleNodeDisconnected"
    /\ NodesHas(nodes, last'.nodeId)
C31_Registry ==
  /\ [](UniqueIds /\ ConnectedRegistered /\ DisconnectedRemoved)
  /\ [][ConnectOverwrites /\ DisconnectEmitsIfRegistered /\ NoEventOtherwise]_vars
C31_Witness ==
  /\ last.op = "handleNodeDisconnected"
  /\ events = <<>>
  /\ Len(nodes) = 1
  /\ AdapterHas("wifiDirect", "n1", btConnected, wifiConnected)
  /\ IdentitySet
C31_WitnessOverwrite ==
  /\ Connected /\ last.type = "wifiDirect" /\ last.nodeId = "n1"
  /\ "n1" \in btConnected
  /\ Len(nodes) = 1

\* C32 as claimed (location broadcaster): the periodic task runs exactly while
\* networking is active: a successful startNetworking sets it running, nothing
\* else does, it is stopped when a stopNetworking or a cleanup has run to its
\* end and by nothing else; each of its ticks calls updateLocation with the
\* last known location, and only when one is known.
StartedNetworking == last'.op = "startNetworking" /\ result' = "true"
StopCompleted == last'.op \in {"stopNetworking", "cleanup"} /\ last'.phase \in {"done", "resumed"}
TimerFollowsNetworking ==
  /\ StartedNetworking => timer'
  /\ (timer' /\ ~timer) => StartedNetworking
  /\ StopCompleted => ~timer'
  /\ (timer /\ ~timer') => StopCompleted
TickRepeatsLocation ==
  last.op = "timer" =>
    /\ last.location # "" /\ location = last.location
    /\ events = <<Event("locationUpdated", [userId |-> userId, location |-> location])>>
C32_Claimed == []TickRepeatsLocation /\ [][TimerFollowsNetworking]_vars

\* C33 as claimed (dispatch over a snapshot): notifyListeners invokes the
\* callbacks that were subscribed when the dispatch started, each once and in
\* order, whatever they subscribe or unsubscribe meanwhile; a callback
\* subscribed during the dispatch is not invoked in it, and the dispatch
\* returns.
Snapshot(ev, ls) ==
  IF ev.name \notin DOMAIN ls THEN <<>>
  ELSE [i \in 1..Len(ls[ev.name]) |->
          [event |-> ev.name, callback |-> ls[ev.name][i], threw |-> ls[ev.name][i] \in Throwing]]
LateNotInvoked ==
  \A cb \in DispatchCallbacks :
    (\E i \in 1..Len(invoked') : invoked'[i].callback = cb) =>
      Registered(listeners, "locationUpdated", cb)
C33_Claimed ==
  [][last'.op = "updateLocation" =>
       /\ invoked' = Snapshot(events'[1], listeners)
       /\ LateNotInvoked
       /\ result' = "none"]_vars

\* C34 as claimed (send failures stay inside the engine): a failing adapter
\* send of a broadcast, a relay or a greeting surfaces neither as an exception
\* of sendMessage, updateLocation, handleMessageReceived or handleNodeConnected
\* nor as a rejected promise that nothing handles.
Sending ==
  last.op \in {"sendMessage", "updateLocation", "timer", "handleMessageReceived",
               "handleNodeConnected"}
UnhandledRejections == {j \in 1..Len(sends) : ~sends[j].ok /\ ~sends[j].awaited}
C34_Claimed ==
  (Sending /\ SomeSendFailed) =>
    /\ UnhandledRejections = {}
    /\ result # "Error: Mesh network not initialized"

\* C35 as claimed (cleanup disconnects the nodes): for every node the registry
\* holds when cleanup is called a disconnect is requested at the adapter of its
\* entry, in the cleanup call itself or, when the stopNetworking it started is
\* suspended at its await, when that stopNetworking resumes.
DisconnectsRequested(ns, cs) ==
  \A i \in 1..Len(ns) : \E j \in 1..Len(cs) : cs[j] = DisconnectCalls(ns)[i]
CleanupDisconnects ==
  (last.op = "cleanup" /\ last.phase = "done") => DisconnectsRequested(last.nodes, calls)
CleanupDisconnectsLater ==
  (/\ last.op = "cleanup" /\ last.phase = "suspended"
   /\ last'.op = "stopNetworking" /\ last'.phase = "resumed") =>
    DisconnectsRequested(last.nodes, calls')
C35_Claimed == []CleanupDisconnects /\ [][CleanupDisconnectsLater]_vars

\* C36 (adapter events after cleanup): once cleanup has released the adapter
\* subscriptions they stay released, and an adapter event (node connected,
\* node disconnected, message received) reaches no handler of the engine: it
\* changes neither registry nor cache, issues no send, emits no event and
\* invokes no callback.
AdapterEventOps ==
  {"peerConnected", "peerDisconnected", "messageReceived",
   "handleNodeConnected", "handleNodeDisconnected", "handleMessageReceived"}
StaysReleased == (last.op = "cleanup" \/ ~subscribed) => ~subscribed'
UnheardAfterCleanup ==
  (~subscribed /\ last'.op \in AdapterEventOps) =>
    /\ last'.op \in {"peerConnected", "peerDisconnected", "messageReceived"}
    /\ UNCHANGED <<nodes, messages, delivered, location, userId, groupId>>
    /\ events' = <<>> /\ sends' = <<>> /\ invoked' = <<>>
ReleasedByCleanup == last.op = "cleanup" => ~subscribed
C36_AfterCleanup == []ReleasedByCleanup /\ [][StaysReleased /\ UnheardAfterCleanup]_vars
C36_Witness ==
  /\ ~subscribed /\ last.op = "messageReceived"
  /\ IdentitySet
  /\ btConnected = {"n1"} /\ wifiConnected = {"n2"}
  /\ nodes = <<>> /\ messages = EmptyCache
  /\ events = <<>> /\ sends = <<>>

\* C37 (no echo of own messages): a message sendMessage has created is in the
\* cache under its id when sendMessage has run; when a neighbour sends it back
\* within the session it is recognised as cached, it is not emitted as
\* messageReceived and it is not relayed, so no id of the engine's own user is
\* ever counted as delivered.
Own(msg) == msg.id # NoId /\ userId # "" /\ msg.userId = userId /\ msg.id[1] = userId
SentIsCached ==
  (last.op = "sendMessage" /\ result # "Error: Mesh network not initialized") =>
    /\ result \in DOMAIN messages
    /\ messages[result].msg = events[1].data
    /\ Own(messages[result].msg)
EchoDropped ==
  (Received /\ Own(last.msg)) => last.cached /\ events = <<>> /\ sends = <<>> /\ invoked = <<>>
OwnNeverDelivered == \A i \in DOMAIN delivered : i[1] # userId
C37_NoEcho == SentIsCached /\ EchoDropped /\ OwnNeverDelivered
C37_Witness ==
  /\ Received /\ Own(last.msg)
  /\ Live(last.msg)
  /\ Len(nodes) = 2
  /\ events = <<>> /\ sends = <<>>

\* C38 as claimed (group scoping of receive events): every messageReceived,
\* locationReceived or userInfo event stems from an inbound message whose
\* groupId equals the engine's groupId at the time of receipt; a message that
\* carries no groupId is not delivered.
ReceiveEventEmitted == \E i \in 1..Len(events) : events[i].name \in ReceiveEvents
C38_Claimed ==
  ReceiveEventEmitted => Received /\ IdentitySet /\ last.msg.groupId = groupId

\* C38 as amended: every such event stems from an inbound message that either
\* carries the engine's groupId or carries no groupId at all.
C38_GroupScoped ==
  ReceiveEventEmitted =>
    /\ Received /\ IdentitySet
    /\ last.msg.groupId \in {"", groupId}
    /\ \E id \in NodeIds : events = Dispatch(id, last.msg)
C38_Witness ==
  /\ Received /\ IdentitySet
  /\ last.msg.groupId = ""
  /\ Len(events) = 1 /\ events[1].name = "messageReceived"
  /\ events[1].data.message = last.msg

\* C39 as claimed (no location across sessions): when initialize has switched
\* the engine to another group, the handler that runs next, if it is the
\* periodic broadcaster or the greeting of a new node, sends no location
\* message: the location known then was set in the session before.
SwitchedGroup ==
  /\ last.op = "initialize"
  /\ last.before.groupId # "" /\ last.before.groupId # last.groupId
SendsLocation == \E j \in 1..Len(sends') : sends'[j].msg.type = "location"
C39_Claimed ==
  [][(SwitchedGroup /\ last'.op \in {"timer", "handleNodeConnected"}) => ~SendsLocation]_vars

\* C40 (location and presence reach direct neighbours only): the messages
\* updateLocation, the periodic task and the greeting send are location and
\* presence messages without id and without ttl; an engine that receives such a
\* message in its group delivers it, in one event, at every receipt, puts
\* nothing in the cache for it and relays it to no node.
EngineBuilt(msg) == msg.id = NoId /\ msg.ttl = 0 /\ msg.type \in {"location", "user"}
ProducedBare ==
  last.op \in {"updateLocation", "timer", "handleNodeConnected"} =>
    \A j \in 1..Len(sends) : EngineBuilt(sends[j].msg)
DeliveredNotRelayed ==
  (Received /\ EngineBuilt(last.msg) /\ IdentitySet /\ last.msg.groupId \in {"", groupId}) =>
    /\ ~last.cached
    /\ Len(events) = 1
    /\ \E id \in NodeIds : events = Dispatch(id, last.msg)
    /\ sends = <<>>
    /\ NoId \notin DOMAIN messages
C40_DirectNeighbours == ProducedBare /\ DeliveredNotRelayed
C40_Witness ==
  /\ Received /\ EngineBuilt(last.msg) /\ IdentitySet
  /\ last.repeat = "n1"
  /\ Len(events) = 1 /\ events[1].name = "locationReceived"
  /\ Len(nodes) = 2
  /\ sends = <<>>
C40_WitnessProduced ==
  /\ last.op = "handleNodeConnected"
  /\ Len(sends) = 2
  /\ sends[1].msg.type = "user" /\ sends[2].msg.type = "location"
====
